---------------------------- MODULE Spec2Model ----------------------------
(***************************************************************************)
(* derive-quickcheck-arbitrary: the derive macro `#[derive(Arbitrary)]`    *)
(* (src/src/lib.rs) and the `arbitrary` function it generates.             *)
(*                                                                         *)
(* The macro is a pure function from a parsed declaration (syn's           *)
(* DeriveInput) to either a generated implementation or a compile error.   *)
(* The generated implementation is a small sequential program: it          *)
(* evaluates constructor expressions field by field and, for an enum,      *)
(* picks one of the constructed values.                                    *)
(*                                                                         *)
(* Conventions.  Option<T> is a sequence of length 0 (None) or 1 (Some).   *)
(* Result<T, E> is a record [ok, val, err].  Sequences are 1-based, so the *)
(* zero-based index of Rust's `enumerate` is the position minus one.       *)
(***************************************************************************)
EXTENDS Integers, Sequences, FiniteSets, TLC

VARIABLES
    input,      \* the DeriveInput handed to the macro
    result,     \* what expand_arbitrary returned for it
    pc,         \* where the derive / the generated `arbitrary` stands
    todo,       \* constructor expressions still to be evaluated in this call
    cur,        \* field values of the constructor being evaluated
    options,    \* the constructed values (`options` of the generated code)
    trace,      \* uses of the generator handle `g` in this call, in order
    ret,        \* what the last call of `arbitrary` produced
    stream,     \* the token stream handed to Arg::parse
    arg         \* what Arg::parse returned for it

vars == <<input, result, pc, todo, cur, options, trace, ret, stream, arg>>

---------------------------------------------------------------------------
(* Bounds of the model. *)

\* most sites (variants and fields) a declaration has besides the item
MaxSites == 3
\* most attributes a declaration carries, all sites together
MaxBlocks == 2
\* most bounds in a `where(...)` list handed to Arg::parse
MaxPreds == 2

---------------------------------------------------------------------------
(* Option and Result. *)

None == <<>>
Some(x) == <<x>>
IsSome(o) == Len(o) = 1
Unwrap(o) == o[1]

NoSpan == [of |-> "none", site |-> [kind |-> "none", v |-> 0, f |-> 0],
           lo |-> 0, hi |-> 0, a |-> 0]
NoError == [msg |-> "", span |-> NoSpan, chained |-> FALSE]
Ok(v) == [ok |-> TRUE, val |-> v, err |-> NoError]
Err(e) == [ok |-> FALSE, val |-> <<>>, err |-> e]

\* syn::Error::new(span, msg) and syn::Error::new_spanned(tokens, msg)
Error(span, msg) == [msg |-> msg, span |-> span, chained |-> FALSE]

\* (mutant) a collect that keeps what succeeded and drops the errors
RECURSIVE Collect_lenient(_)
Collect_lenient(rs) ==
    IF rs = <<>> THEN Ok(<<>>)
    ELSE IF ~Head(rs).ok THEN Collect_lenient(Tail(rs))
    ELSE Ok(<<Head(rs).val>> \o Collect_lenient(Tail(rs)).val)

\* Iterator::collect::<Result<Vec<_>, _>>(): the values when every item is
\* Ok, else the first Err in iteration order.
RECURSIVE Collect(_)
Collect(rs) ==
    IF rs = <<>> THEN Ok(<<>>)
    ELSE IF ~Head(rs).ok THEN Err(Head(rs).err)
    ELSE LET rest == Collect(Tail(rs))
         IN  IF rest.ok THEN Ok(<<Head(rs).val>> \o rest.val) ELSE rest

---------------------------------------------------------------------------
(* Source locations. *)

ItemSite == [kind |-> "item", v |-> 0, f |-> 0]
VariantSite(v) == [kind |-> "variant", v |-> v, f |-> 0]
FieldSite(v, f) == [kind |-> "field", v |-> v, f |-> f]

\* the span of the whole item or of one field, attributes included
SiteSpan(s) == [of |-> "site", site |-> s, lo |-> 0, hi |-> 0, a |-> 0]
\* the span of a Punctuated<Variant>: from its first to its last variant
\* (of one variant when lo = hi)
VariantsSpan(lo, hi) ==
    [of |-> "variants", site |-> ItemSite, lo |-> lo, hi |-> hi, a |-> 0]
\* the span of the a-th attribute of a site, and of its arguments
AttrSpan(s, a) == [of |-> "attr", site |-> s, lo |-> 0, hi |-> 0, a |-> a]
ArgsSpan(s, a) == [of |-> "args", site |-> s, lo |-> 0, hi |-> 0, a |-> a]

---------------------------------------------------------------------------
(* The attribute micro-grammar. *)

\* struct AttrArgs: what structmeta parses out of `#[arbitrary(...)]`
AttrArgsOf(gen, skip, default, where) ==
    [gen |-> gen, skip |-> skip, default |-> default, where |-> where]

\* enum Arg
ArgSkip == [tag |-> "Skip", args |-> <<>>]
ArgGen(args) == [tag |-> "Gen", args |-> args]
ArgDefault == [tag |-> "Default", args |-> <<>>]
ArgWhere(preds) == [tag |-> "Where", args |-> preds]

\* (the source writes the keys of its messages between backquotes)
HintMsg == "expected one of gen, default, where or skip"

\* The tokens between the parentheses of one attribute: which of the four
\* keys are written (gen and where with their arguments), and whether some
\* other token is there that AttrArgs rejects (`junk`).  A where-bound that
\* is no WherePredicate is written "?".
Tokens(gen, skip, default, where, junk) ==
    [gen |-> gen, skip |-> skip, default |-> default, where |-> where,
     junk |-> junk]

\* AttrArgs::parse (derived by structmeta): the named flags and arguments,
\* or a parse error at the offending token.
AttrArgs_parse(ts, span) ==
    IF ts.junk THEN Err(Error(span, "cannot find parameter"))
    ELSE Ok(AttrArgsOf(ts.gen, ts.skip, ts.default, ts.where))

\* Punctuated::<WherePredicate, Comma>::parse_terminated.parse2(args)
parse_terminated(args, span) ==
    IF \E i \in 1..Len(args) : args[i] = "?"
    THEN Err(Error(span, "expected where predicate"))
    ELSE Ok(args)

\* `Ok(Arg::Where(parsed?))`: the parse error of the bounds as it is
where_arg(parsed) == IF parsed.ok THEN Ok(ArgWhere(parsed.val)) ELSE Err(parsed.err)

\* (mutant) the first key found decides, whatever else is written
match_attr_args_first_key(a, hint, span) ==
    IF ~a.ok THEN Err([hint EXCEPT !.chained = TRUE])
    ELSE CASE a.val.skip -> Ok(ArgSkip)
           [] IsSome(a.val.gen) -> Ok(ArgGen(Unwrap(a.val.gen)))
           [] IsSome(a.val.where) ->
                where_arg(parse_terminated(Unwrap(a.val.where), span))
           [] a.val.default -> Ok(ArgDefault)
           [] OTHER -> Err(hint)

\* the `match` of Arg::parse on what AttrArgs::parse returned
match_attr_args(a, hint, span) ==
    IF ~a.ok THEN Err([hint EXCEPT !.chained = TRUE])
    ELSE CASE a.val.gen = None /\ a.val.where = None
              /\ ~a.val.skip /\ ~a.val.default -> Err(hint)
           [] a.val.skip /\ a.val.gen = None
              /\ ~a.val.default /\ a.val.where = None -> Ok(ArgSkip)
           [] IsSome(a.val.gen) /\ a.val.where = None
              /\ ~a.val.skip /\ ~a.val.default -> Ok(ArgGen(Unwrap(a.val.gen)))
           [] IsSome(a.val.where) /\ a.val.gen = None
              /\ ~a.val.skip /\ ~a.val.default ->
                where_arg(parse_terminated(Unwrap(a.val.where), span))
           [] a.val.default /\ a.val.where = None
              /\ a.val.gen = None /\ ~a.val.skip -> Ok(ArgDefault)
           [] OTHER -> Err(hint)

\* impl Parse for Arg
Arg_parse(ts, span) ==
    match_attr_args(AttrArgs_parse(ts, span), Error(span, HintMsg), span)

\* the closure of get_one_arg: one `arbitrary` attribute
parse_attr(attr) ==
    IF attr.style = "Outer"
    THEN Arg_parse(attr.args, attr.args_span)
    ELSE Err(Error(attr.span,
             "only outer attributes are supported: #[arbitrary(...)]"))

parse_attrs_all(mine) == Collect([i \in 1..Len(mine) |-> parse_attr(mine[i])])

\* (mutant) of several configurations the first one is used
match_configs_first(configs, parent_span) ==
    IF ~configs.ok THEN configs
    ELSE IF Len(configs.val) = 0 THEN Ok(None)
    ELSE Ok(Some(configs.val[1]))

\* the `match configs.as_slice()` of get_one_arg
match_configs(configs, parent_span) ==
    IF ~configs.ok THEN configs
    ELSE CASE Len(configs.val) = 0 -> Ok(None)
           [] Len(configs.val) = 1 -> Ok(Some(configs.val[1]))
           [] OTHER -> Err(Error(parent_span,
                  "#[arbitrary(...)] can only be specified once"))

\* get_one_arg: the one `arbitrary` configuration of a site, if any
get_one_arg(attrs, parent_span) ==
    match_configs(
        parse_attrs_all(SelectSeq(attrs, LAMBDA it : it.path = "arbitrary")),
        parent_span)

---------------------------------------------------------------------------
(* Synthesis of the constructor. *)

Named(name) == [named |-> TRUE, name |-> name, index |-> 0 - 1]
Unnamed(ix) == [named |-> FALSE, name |-> "", index |-> ix]

\* the three value expressions field_values writes:
\* `::quickcheck::Arbitrary::arbitrary(g)`
ExprArbitrary(g) ==
    [op |-> "arbitrary", custom |-> "", ty |-> "", handle |-> Some(g)]
\* `((custom) as (fn(&mut ::quickcheck::Gen) -> ty))(&mut *g)`
ExprGen(custom, ty, g) ==
    [op |-> "gen", custom |-> custom, ty |-> ty, handle |-> Some(g)]
\* `::core::default::Default::default()`
ExprDefault ==
    [op |-> "default", custom |-> "", ty |-> "", handle |-> None]

\* (mutant) a `default` field is drawn from the generator all the same
match_field_arg_default_draws(a, ix, field, gen_name) ==
    IF ~a.ok THEN Err(a.err)
    ELSE IF IsSome(a.val) /\ Unwrap(a.val).tag \in {"Skip", "Where"}
    THEN Err(Error(field.span, "skip and where are not valid for members"))
    ELSE Ok([member |-> IF IsSome(field.ident)
                        THEN Named(Unwrap(field.ident))
                        ELSE Unnamed(ix - 1),
             expr |-> IF a.val # None /\ Unwrap(a.val).tag = "Gen"
                      THEN ExprGen(Unwrap(a.val).args, field.ty, gen_name)
                      ELSE ExprArbitrary(gen_name)])

\* the `match` of field_values on the field's configuration `a`, and the
\* FieldValue it builds (ix is 1-based here)
match_field_arg(a, ix, field, gen_name) ==
    IF ~a.ok THEN Err(a.err)
    ELSE IF IsSome(a.val) /\ Unwrap(a.val).tag \in {"Skip", "Where"}
    THEN Err(Error(field.span, "skip and where are not valid for members"))
    ELSE Ok([member |-> IF IsSome(field.ident)
                        THEN Named(Unwrap(field.ident))
                        ELSE Unnamed(ix - 1),
             expr |-> IF a.val = None THEN ExprArbitrary(gen_name)
                      ELSE IF Unwrap(a.val).tag = "Gen"
                      THEN ExprGen(Unwrap(a.val).args, field.ty, gen_name)
                      ELSE ExprDefault])

\* the closure of field_values: one field
field_value(ix, field, gen_name) ==
    match_field_arg(get_one_arg(field.attrs, field.span), ix, field, gen_name)

\* fn field_values
field_values(fields, gen_name) ==
    Collect([ix \in 1..Len(fields) |-> field_value(ix, fields[ix], gen_name)])

\* fn expr_struct with fn path_of_idents
expr_struct(path, fvs) == [path |-> path, fields |-> fvs]

\* Result::map of the field values into the struct expression
map_expr_struct(path, fs) ==
    IF fs.ok THEN Ok(expr_struct(path, fs.val)) ELSE Err(fs.err)

\* (mutant) `skip` is accepted and ignored: the variant stays a candidate
match_variant_arg_keeps_skipped(a, variant, struct_name, span, gen_name) ==
    IF ~a.ok THEN Some(Err(a.err))
    ELSE IF a.val = None \/ Unwrap(a.val).tag = "Skip"
    THEN Some(map_expr_struct(<<struct_name, variant.ident>>,
                              field_values(variant.fields, gen_name)))
    ELSE Some(Err(Error(span,
             "gen, default and where are not valid for enum variants")))

\* the `match` of the closure handed to filter_map, on the variant's
\* configuration `a`: None for a skipped variant, else the variant's
\* constructor or its error
match_variant_arg(a, variant, struct_name, span, gen_name) ==
    IF ~a.ok THEN Some(Err(a.err))
    ELSE IF a.val = None
    THEN Some(map_expr_struct(<<struct_name, variant.ident>>,
                              field_values(variant.fields, gen_name)))
    ELSE IF Unwrap(a.val).tag = "Skip" THEN None
    ELSE Some(Err(Error(span,
             "gen, default and where are not valid for enum variants")))

variant_ctor(variant, struct_name, span, gen_name) ==
    match_variant_arg(get_one_arg(variant.attrs, span),
                      variant, struct_name, span, gen_name)

\* Iterator::filter_map: the Some items, in order
RECURSIVE Flatten(_)
Flatten(os) ==
    IF os = <<>> THEN <<>>
    ELSE Head(os) \o Flatten(Tail(os))

\* the span of a Punctuated<Variant>
variants_span(variants) ==
    IF variants = <<>> THEN VariantsSpan(1, 0)
    ELSE VariantsSpan(variants[1].span.lo, variants[Len(variants)].span.hi)

\* (mutant) the constructors are collected last variant first
variant_ctors_reversed(variants, struct_name, span, gen_name) ==
    Collect(Flatten([v \in 1..Len(variants) |->
        variant_ctor(variants[Len(variants) + 1 - v], struct_name, span, gen_name)]))

\* variants.into_iter().filter_map(..).collect::<Result<Vec<_>, _>>()
variant_ctors(variants, struct_name, span, gen_name) ==
    Collect(Flatten([v \in 1..Len(variants) |->
        variant_ctor(variants[v], struct_name, span, gen_name)]))

\* the body of `arbitrary` for a struct: its struct expression
struct_ctor(e) ==
    IF e.ok THEN Ok([kind |-> "struct", exprs |-> <<e.val>>]) ELSE Err(e.err)

\* (mutant) an enum left without candidates is refused by the derive
enum_ctor_refuses_empty(es) ==
    IF es.ok /\ es.val # <<>> THEN Ok([kind |-> "choose", exprs |-> es.val])
    ELSE Err(IF es.ok THEN Error(NoSpan, "no variants to choose from") ELSE es.err)

\* the body of `arbitrary` for an enum:
\* `let options = [ #(#variant_ctors,)* ]; g.choose(options.as_slice())...`
enum_ctor(es) ==
    IF es.ok THEN Ok([kind |-> "choose", exprs |-> es.val]) ELSE Err(es.err)

\* (mutant) a union is constructed like a struct
match_data_union_as_struct(inp, struct_name, gen_name) ==
    IF inp.kind = "enum"
    THEN enum_ctor(variant_ctors(inp.variants, struct_name,
                                 variants_span(inp.variants), gen_name))
    ELSE struct_ctor(map_expr_struct(<<struct_name>>,
                                     field_values(inp.fields, gen_name)))

\* the `match input.data` of expand_arbitrary
match_data(inp, struct_name, gen_name) ==
    CASE inp.kind = "struct" ->
           struct_ctor(
               map_expr_struct(<<struct_name>>,
                               field_values(inp.fields, gen_name)))
      [] inp.kind = "enum" ->
           enum_ctor(
               variant_ctors(inp.variants, struct_name,
                             variants_span(inp.variants), gen_name))
      [] OTHER ->
           Err(Error(inp.span, "#[derive(Arbitrary)] is not supported on unions"))

\* the final quote! of expand_arbitrary
quote_impl(inp, predicates, gen_name, ctor) ==
    IF ~ctor.ok THEN Err(ctor.err)
    ELSE Ok([generics |-> inp.generics, name |-> inp.ident,
             where_clause |-> predicates, gen_name |-> gen_name,
             ctor |-> ctor.val])

\* (mutant) any one key is accepted on the item
match_item_arg_any_key(item, inp, gen_name) ==
    IF ~item.ok THEN Err(item.err)
    ELSE quote_impl(inp,
                    IF IsSome(item.val) /\ Unwrap(item.val).tag = "Where"
                    THEN Unwrap(item.val).args ELSE <<>>,
                    gen_name,
                    match_data(inp, inp.ident, gen_name))

\* the `match` of expand_arbitrary on the item's configuration
match_item_arg(item, inp, gen_name) ==
    IF ~item.ok THEN Err(item.err)
    ELSE IF IsSome(item.val) /\ Unwrap(item.val).tag # "Where"
    THEN Err(Error(inp.span, "only where is valid for items"))
    ELSE quote_impl(inp,
                    IF IsSome(item.val) THEN Unwrap(item.val).args ELSE <<>>,
                    gen_name,
                    match_data(inp, inp.ident, gen_name))

\* fn expand_arbitrary
expand_arbitrary(inp) ==
    match_item_arg(get_one_arg(inp.attrs, inp.span), inp, "g")

---------------------------------------------------------------------------
(* The declarations handed to the macro. *)

NoTokens == Tokens(None, FALSE, FALSE, None, FALSE)

\* The `arbitrary` attributes a site may carry, as written.
Blocks == { "#[arbitrary(skip)]", "#[arbitrary(default)]", "#[arbitrary(gen(e))]",
            "#[arbitrary(where(P))]", "#[arbitrary(does_not_exist)]",
            "#![arbitrary(default)]" }

\* The item, and the first field or variant of every list, are documented:
\* a doc comment is an attribute of another path, in front of the others.
DocComment == "#[doc(default)]"

\* The shape of a declaration body: for a struct or a union the number of
\* its fields, for an enum the number of fields of each variant.
RECURSIVE VariantShapes(_)
VariantShapes(s) ==
    { <<>> } \cup
    UNION { { <<n>> \o r : r \in VariantShapes(s - 1 - n) } : n \in 0..(s - 1) }

Shapes ==
    { [kind |-> "struct", fields |-> n, variants |-> <<>>] : n \in 0..MaxSites }
    \cup { [kind |-> "union", fields |-> n, variants |-> <<>>] : n \in 1..MaxSites }
    \cup { [kind |-> "enum", fields |-> 0, variants |-> vs] :
           vs \in VariantShapes(MaxSites) }

RECURSIVE SumSeq(_)
SumSeq(ns) == IF ns = <<>> THEN 0 ELSE Head(ns) + SumSeq(Tail(ns))

\* Sites are numbered in source order: 0 is the item, then every field of a
\* struct, or every variant of an enum followed by its fields.
NumSites(shape) == shape.fields + Len(shape.variants) + SumSeq(shape.variants)
SiteOfVariant(shape, v) == v + SumSeq(SubSeq(shape.variants, 1, v - 1))
SiteOfField(shape, v, f) ==
    IF v = 0 THEN f ELSE SiteOfVariant(shape, v) + f

\* Fields::Named or Fields::Unnamed for each variant (and, at index 0, for
\* the struct or union itself); a union's fields are named
Namings(shape) ==
    { nm \in [0..Len(shape.variants) -> BOOLEAN] :
        /\ shape.kind = "union" => nm[0]
        /\ shape.kind = "enum" => ~nm[0]
        /\ shape.kind = "struct" /\ shape.fields = 0 => ~nm[0]
        /\ \A v \in 1..Len(shape.variants) : shape.variants[v] = 0 => ~nm[v] }

\* where k attributes stand: the site of each, in source order
RECURSIVE Places(_, _, _)
Places(lo, hi, k) ==
    IF k = 0 THEN { <<>> }
    ELSE UNION { { <<j>> \o r : r \in Places(j, hi, k - 1) } : j \in lo..hi }

\* the `arbitrary` attributes of site j, in the order written
BlocksAt(places, blocks, j) ==
    LET at == { i \in 1..Len(places) : places[i] = j }
    IN  IF at = {} THEN <<>>
        ELSE LET first == CHOOSE i \in at : \A i2 \in at : i <= i2
             IN  [a \in 1..Cardinality(at) |-> blocks[first + a - 1]]

\* the attributes of site j, the first of its list or not
AttrsAt(places, blocks, j, first) ==
    (IF first THEN <<DocComment>> ELSE <<>>) \o BlocksAt(places, blocks, j)

\* identifiers, by position
FieldName(i) == <<"a", "b", "c", "d", "e", "f", "g", "h">>[i]
VariantName(i) == <<"A", "B", "C", "D", "E", "F", "G", "H">>[i]

\* syn's parse of the attributes of one site, each with its span
attr_path(b) == IF b = DocComment THEN "doc" ELSE "arbitrary"
attr_style(b) == IF b = "#![arbitrary(default)]" THEN "Inner" ELSE "Outer"
attr_args(b) ==
    CASE b = "#[arbitrary(skip)]" -> [NoTokens EXCEPT !.skip = TRUE]
      [] b = "#[arbitrary(gen(e))]" -> [NoTokens EXCEPT !.gen = Some("e")]
      [] b = "#[arbitrary(where(P))]" -> [NoTokens EXCEPT !.where = Some(<<"P">>)]
      [] b = "#[arbitrary(does_not_exist)]" -> [NoTokens EXCEPT !.junk = TRUE]
      [] OTHER -> [NoTokens EXCEPT !.default = TRUE]

parse_attrs(al, site) ==
    [a \in 1..Len(al) |->
        [path |-> attr_path(al[a]), style |-> attr_style(al[a]),
         args |-> attr_args(al[a]),
         span |-> AttrSpan(site, a), args_span |-> ArgsSpan(site, a)]]

parse_fields(n, named, shape, v, places, blocks) ==
    [f \in 1..n |->
        [attrs |-> parse_attrs(
                      AttrsAt(places, blocks, SiteOfField(shape, v, f), f = 1),
                      FieldSite(v, f)),
         ident |-> IF named THEN Some(FieldName(f)) ELSE None,
         ty |-> "T",
         span |-> SiteSpan(FieldSite(v, f))]]

\* syn's DeriveInput for the declaration of that shape with blocks[i]
\* written at site places[i]
parse_input(shape, naming, places, blocks) ==
    [kind |-> shape.kind, ident |-> "S", generics |-> <<>>,
     attrs |-> parse_attrs(AttrsAt(places, blocks, 0, TRUE), ItemSite),
     fields |-> parse_fields(shape.fields, naming[0], shape, 0, places, blocks),
     variants |-> [v \in 1..Len(shape.variants) |->
         [attrs |-> parse_attrs(
                       AttrsAt(places, blocks, SiteOfVariant(shape, v), v = 1),
                       VariantSite(v)),
          ident |-> VariantName(v),
          fields |-> parse_fields(shape.variants[v], naming[v], shape, v,
                                  places, blocks),
          span |-> VariantsSpan(v, v)]],
     span |-> SiteSpan(ItemSite)]

---------------------------------------------------------------------------
(* The derive, and the generated `arbitrary`. *)

NoResult == [ok |-> FALSE, val |-> <<>>, err |-> NoError]
NoReturn == [tag |-> "none", val |-> <<>>, msg |-> ""]
Idle == {"ready", "returned", "panicked"}

Init ==
    /\ \E shape \in Shapes, k \in 0..MaxBlocks :
         \E naming \in Namings(shape), places \in Places(0, NumSites(shape), k),
            blocks \in [1..k -> Blocks] :
              input = parse_input(shape, naming, places, blocks)
    /\ result = NoResult
    /\ pc = "input"
    /\ todo = <<>>
    /\ cur = <<>>
    /\ options = <<>>
    /\ trace = <<>>
    /\ ret = NoReturn
    /\ stream = NoTokens
    /\ arg = NoResult

\* fn derive_arbitrary: the implementation, or the compile error
Derive ==
    /\ pc = "input"
    /\ result' = expand_arbitrary(input)
    /\ pc' = IF result'.ok THEN "ready" ELSE "compile_error"
    /\ UNCHANGED <<input, todo, cur, options, trace, ret, stream, arg>>

\* a call of the generated `fn arbitrary(g: &mut Gen) -> Self`
Call ==
    /\ pc \in Idle
    /\ pc' = "building"
    /\ todo' = result.val.ctor.exprs
    /\ cur' = <<>>
    /\ options' = <<>>
    /\ trace' = <<>>
    /\ ret' = NoReturn
    /\ UNCHANGED <<input, result, stream, arg>>

\* the value of one field expression, given the handle uses so far
Eval(expr, path, member, uses) ==
    IF expr.handle = None
    THEN [src |-> expr.op, custom |-> expr.custom, draw |-> 0]
    ELSE [src |-> expr.op, custom |-> expr.custom, draw |-> Len(uses) + 1]

\* the next field expression of the struct expression being evaluated;
\* the fields of a struct expression are evaluated in the order written
EvalField ==
    /\ pc = "building"
    /\ todo # <<>>
    /\ Len(cur) < Len(Head(todo).fields)
    /\ LET fv == Head(todo).fields[Len(cur) + 1]
           path == Head(todo).path
       IN  /\ cur' = Append(cur, [member |-> fv.member,
                                   value |-> Eval(fv.expr, path, fv.member, trace)])
           /\ trace' = IF fv.expr.handle = None THEN trace
                       ELSE Append(trace, [op |-> fv.expr.op,
                                           custom |-> fv.expr.custom,
                                           path |-> path, member |-> fv.member])
    /\ UNCHANGED <<input, result, pc, todo, options, ret, stream, arg>>

\* `let options = [ ctor, ctor, ];`: the elements of an array expression
\* are evaluated from first to last
Construct ==
    /\ pc = "building"
    /\ result.val.ctor.kind = "choose"
    /\ todo # <<>>
    /\ Len(cur) = Len(Head(todo).fields)
    /\ options' = Append(options, [path |-> Head(todo).path, fields |-> cur])
    /\ todo' = Tail(todo)
    /\ cur' = <<>>
    /\ UNCHANGED <<input, result, pc, trace, ret, stream, arg>>

\* a struct: the struct expression is the function's value
Return ==
    /\ pc = "building"
    /\ result.val.ctor.kind = "struct"
    /\ todo # <<>>
    /\ Len(cur) = Len(Head(todo).fields)
    /\ ret' = [tag |-> "value",
               val |-> [path |-> Head(todo).path, fields |-> cur], msg |-> ""]
    /\ pc' = "returned"
    /\ todo' = <<>>
    /\ cur' = <<>>
    /\ UNCHANGED <<input, result, options, trace, stream, arg>>

\* `g.choose(options.as_slice())`: Some element of a slice that is not
\* empty, any of them; None of an empty slice
choose(slice) ==
    IF slice = <<>> THEN { None } ELSE { Some(slice[i]) : i \in 1..Len(slice) }

\* `g.choose(options.as_slice()).expect("no variants to choose from").clone()`
Choose ==
    /\ pc = "building"
    /\ result.val.ctor.kind = "choose"
    /\ todo = <<>>
    /\ \E picked \in choose(options) :
         \/ /\ IsSome(picked)
            /\ ret' = [tag |-> "value", val |-> Unwrap(picked), msg |-> ""]
            /\ pc' = "returned"
         \/ /\ picked = None
            /\ ret' = [tag |-> "panic", val |-> <<>>,
                       msg |-> "no variants to choose from"]
            /\ pc' = "panicked"
    /\ UNCHANGED <<input, result, todo, cur, options, trace, stream, arg>>

Next == Derive \/ Call \/ EvalField \/ Construct \/ Return \/ Choose

Spec == Init /\ [][Next]_vars

---------------------------------------------------------------------------
(* Arg::parse on its own: every token stream of the micro-grammar. *)

Preds == UNION { [1..n -> {"P", "Q", "?"}] : n \in 0..MaxPreds }

TokenStreams ==
    { Tokens(g, s, d, w, j) :
        g \in {None, Some("e")}, s \in BOOLEAN, d \in BOOLEAN,
        w \in {None} \cup { Some(p) : p \in Preds }, j \in BOOLEAN }

InitParse ==
    /\ stream \in TokenStreams
    /\ arg = NoResult
    /\ pc = "tokens"
    /\ input = <<>>
    /\ result = NoResult
    /\ todo = <<>>
    /\ cur = <<>>
    /\ options = <<>>
    /\ trace = <<>>
    /\ ret = NoReturn

\* attr.parse_args::<Arg>()
ParseArgs ==
    /\ pc = "tokens"
    /\ arg' = Arg_parse(stream, ArgsSpan(ItemSite, 1))
    /\ pc' = "parsed"
    /\ UNCHANGED <<input, result, todo, cur, options, trace, ret, stream>>

NextParse == ParseArgs

SpecParse == InitParse /\ [][NextParse]_vars

---------------------------------------------------------------------------
(* What the declaration says, read off the DeriveInput alone. *)

DuplicateMsg == "#[arbitrary(...)] can only be specified once"
InnerMsg == "only outer attributes are supported: #[arbitrary(...)]"
ItemMsg == "only where is valid for items"
MemberMsg == "skip and where are not valid for members"
VariantMsg == "gen, default and where are not valid for enum variants"
UnionMsg == "#[derive(Arbitrary)] is not supported on unions"
PanicMsg == "no variants to choose from"

\* the `arbitrary` configuration blocks among the attributes of a site
ConfigBlocks(attrs) == SelectSeq(attrs, LAMBDA b : b.path = "arbitrary")

\* the keys written in one block
KeysOf(t) ==
    (IF IsSome(t.gen) THEN {"gen"} ELSE {}) \cup
    (IF t.skip THEN {"skip"} ELSE {}) \cup
    (IF t.default THEN {"default"} ELSE {}) \cup
    (IF IsSome(t.where) THEN {"where"} ELSE {})

\* an outer block that is one key of the grammar, with good arguments
WellFormed(b) ==
    /\ b.style = "Outer"
    /\ ~b.args.junk
    /\ Cardinality(KeysOf(b.args)) = 1
    /\ IsSome(b.args.where) =>
         \A i \in 1..Len(Unwrap(b.args.where)) : Unwrap(b.args.where)[i] # "?"

KeyOf(b) == CHOOSE k \in KeysOf(b.args) : TRUE

Allowed(kind) ==
    CASE kind = "item" -> {"where"}
      [] kind = "variant" -> {"skip"}
      [] OTHER -> {"default", "gen"}

InapplicableMsg(kind) ==
    CASE kind = "item" -> ItemMsg
      [] kind = "variant" -> VariantMsg
      [] OTHER -> MemberMsg

\* the site carries the one key `key`, and nothing else of ours
Annotated(attrs, key) ==
    /\ Len(ConfigBlocks(attrs)) = 1
    /\ WellFormed(ConfigBlocks(attrs)[1])
    /\ KeyOf(ConfigBlocks(attrs)[1]) = key

Duplicated(attrs) == Len(ConfigBlocks(attrs)) >= 2

AllWellFormed(attrs) ==
    \A i \in 1..Len(ConfigBlocks(attrs)) : WellFormed(ConfigBlocks(attrs)[i])

\* a key of the grammar, alone on a site that forbids it
Inapplicable(attrs, kind) ==
    /\ Len(ConfigBlocks(attrs)) = 1
    /\ WellFormed(ConfigBlocks(attrs)[1])
    /\ KeyOf(ConfigBlocks(attrs)[1]) \notin Allowed(kind)

\* the configuration of the site is in error: a block that is malformed or
\* inner-style, more than one block, or a key the site forbids
Faulty(attrs, kind) ==
    \/ ~AllWellFormed(attrs)
    \/ Duplicated(attrs)
    \/ Inapplicable(attrs, kind)

SiteOf(kind, v, f, attrs) == [kind |-> kind, v |-> v, f |-> f, attrs |-> attrs]

FieldSitesOf(fields, v) ==
    [f \in 1..Len(fields) |-> SiteOf("field", v, f, fields[f].attrs)]

RECURSIVE VariantSitesFrom(_, _, _)
VariantSitesFrom(variants, v, all) ==
    IF v > Len(variants) THEN <<>>
    ELSE <<SiteOf("variant", v, 0, variants[v].attrs)>>
         \o (IF all \/ ConfigBlocks(variants[v].attrs) = <<>>
             THEN FieldSitesOf(variants[v].fields, v) ELSE <<>>)
         \o VariantSitesFrom(variants, v + 1, all)

\* every site of the declaration, in source order
AllSites(inp) ==
    <<SiteOf("item", 0, 0, inp.attrs)>>
    \o FieldSitesOf(inp.fields, 0)
    \o VariantSitesFrom(inp.variants, 1, TRUE)

\* the sites the macro resolves, in the order it resolves them, when none
\* of them is in error: the item; then, of a struct, its fields; of an
\* enum, each variant followed by its fields unless the variant carries a
\* configuration (a skipped variant's fields are never looked at); of a
\* union, nothing more
ResolvedSites(inp) ==
    <<SiteOf("item", 0, 0, inp.attrs)>>
    \o (IF inp.kind = "struct" THEN FieldSitesOf(inp.fields, 0) ELSE <<>>)
    \o VariantSitesFrom(inp.variants, 1, FALSE)

FaultySites(sites) == SelectSeq(sites, LAMBDA s : Faulty(s.attrs, s.kind))

\* the first resolved site whose configuration is in error, if any
FirstFault(inp) ==
    LET faulty == FaultySites(ResolvedSites(inp))
    IN  IF faulty = <<>> THEN None ELSE Some(Head(faulty))

\* the derive has run
Derived == pc # "input" /\ pc # "tokens" /\ pc # "parsed"

\* the variants that are not annotated `skip`, and their paths
Included(inp) ==
    SelectSeq(inp.variants, LAMBDA v : ~Annotated(v.attrs, "skip"))
PathsOf(xs) == [i \in 1..Len(xs) |-> xs[i].path]
IncludedPaths(inp) ==
    [i \in 1..Len(Included(inp)) |-> <<inp.ident, Included(inp)[i].ident>>]

---------------------------------------------------------------------------
(* The claims. *)

AtPick == pc = "building" /\ todo = <<>> /\ result.val.ctor.kind = "choose"

\* C1: for an enum whose derive succeeds, `options` holds exactly one
\* construction expression per variant not annotated `skip`, in declaration
\* order, and none for a skipped variant; so at the pick the constructed
\* values are exactly the non-skipped variants (each one a possible result)
\* and a returned value is never a skipped variant.
C1_OptionsAreTheIncludedVariants ==
    (Derived /\ input.kind = "enum" /\ result.ok) =>
        /\ PathsOf(result.val.ctor.exprs) = IncludedPaths(input)
        /\ AtPick =>
             /\ PathsOf(options) = IncludedPaths(input)
             /\ { Unwrap(o).path : o \in choose(options) \ {None} }
                  = { IncludedPaths(input)[i] : i \in 1..Len(Included(input)) }
        /\ ret.tag = "value" =>
             \E i \in 1..Len(Included(input)) :
                 ret.val.path = IncludedPaths(input)[i]

C1_Witness ==
    /\ pc = "returned" /\ input.kind = "enum"
    /\ Len(Included(input)) >= 2
    /\ Len(Included(input)) < Len(input.variants)
    /\ ret.val.path = IncludedPaths(input)[2]

\* what a field's annotation asks for
StrategyOf(field) ==
    IF Annotated(field.attrs, "default") THEN ExprDefault
    ELSE IF Annotated(field.attrs, "gen")
    THEN [op |-> "gen", custom |-> Unwrap(ConfigBlocks(field.attrs)[1].args.gen),
          ty |-> field.ty, handle |-> Some("g")]
    ELSE [op |-> "arbitrary", custom |-> "", ty |-> "", handle |-> Some("g")]

MemberOf(field, position) ==
    IF IsSome(field.ident)
    THEN [named |-> TRUE, name |-> Unwrap(field.ident), index |-> 0 - 1]
    ELSE [named |-> FALSE, name |-> "", index |-> position - 1]

EntriesOf(fields) ==
    [f \in 1..Len(fields) |->
        [member |-> MemberOf(fields[f], f), expr |-> StrategyOf(fields[f])]]

\* the uses of the handle that a constructor of these fields makes
UsesOf(path, fields) ==
    LET used == SelectSeq(EntriesOf(fields), LAMBDA e : e.expr.handle # None)
    IN  [i \in 1..Len(used) |->
            [op |-> used[i].expr.op, custom |-> used[i].expr.custom,
             path |-> path, member |-> used[i].member]]

\* C2: a record (or included variant body) whose fields resolve gets one
\* field-value entry per declared field, in declaration order, keyed by name
\* or zero-based position; the value is the default constructor without the
\* handle for `default`, one call of the expression with the handle for
\* `gen(expr)`, the type's own arbitrary(handle) otherwise.  On every call a
\* `default` field is the default value and draws nothing, a `gen` field
\* calls its expression once.
C2_FieldEntries ==
    (Derived /\ result.ok) =>
        /\ input.kind = "struct" =>
             /\ result.val.ctor.exprs[1].fields = EntriesOf(input.fields)
             /\ pc = "returned" =>
                  /\ trace = UsesOf(<<input.ident>>, input.fields)
                  /\ Len(ret.val.fields) = Len(input.fields)
                  /\ \A f \in 1..Len(input.fields) :
                       /\ ret.val.fields[f].member = MemberOf(input.fields[f], f)
                       /\ ret.val.fields[f].value.src = StrategyOf(input.fields[f]).op
                       /\ Annotated(input.fields[f].attrs, "default")
                            => ret.val.fields[f].value.draw = 0
        /\ input.kind = "enum" =>
             \A i \in 1..Len(Included(input)) :
                 result.val.ctor.exprs[i].fields = EntriesOf(Included(input)[i].fields)

C2_Witness ==
    /\ pc = "returned" /\ input.kind = "struct"
    /\ Len(input.fields) >= 3
    /\ Annotated(input.fields[1].attrs, "gen")
    /\ Annotated(input.fields[2].attrs, "default")
    /\ ConfigBlocks(input.fields[3].attrs) = <<>>
    /\ ret.val.fields[2].value.src = "default"
    /\ Len(trace) = 2

C4_Original ==
    Derived =>
        LET sites == AllSites(input)
        IN  \A i \in 1..Len(sites) :
                Inapplicable(sites[i].attrs, sites[i].kind) =>
                    /\ ~result.ok
                    /\ result.err.msg = InapplicableMsg(sites[i].kind)

\* C4 as amended: a key of the grammar at a site that forbids it fails the
\* derive with the inapplicable-at-site error of that kind of site when the
\* site is the first one in error in resolution order (the fields of a
\* union and of a variant annotated `skip` are never resolved); and an
\* implementation is emitted only if the item carries nothing or `where`,
\* every variant nothing or `skip`, and every field of the struct or of a
\* variant not skipped nothing, `default` or `gen`.
C4_Inapplicable ==
    Derived =>
        LET sites == AllSites(input)
            resolved == ResolvedSites(input)
            first == FirstFault(input)
        IN  /\ \A i \in 1..Len(sites) :
                  (Inapplicable(sites[i].attrs, sites[i].kind)
                     /\ first = Some(sites[i])) =>
                      ~result.ok /\ result.err.msg = InapplicableMsg(sites[i].kind)
            /\ result.ok =>
                  \A i \in 1..Len(resolved) :
                      LET blocks == ConfigBlocks(resolved[i].attrs)
                      IN  \A b \in 1..Len(blocks) :
                              KeysOf(blocks[b].args) \subseteq Allowed(resolved[i].kind)

C4_Witness ==
    /\ pc = "compile_error"
    /\ input.kind = "enum" /\ Len(input.variants) >= 2
    /\ Annotated(input.variants[2].attrs, "default")
    /\ result.err.msg = VariantMsg

RECURSIVE UsesOfVariants(_, _)
UsesOfVariants(name, variants) ==
    IF variants = <<>> THEN <<>>
    ELSE UsesOf(<<name, Head(variants).ident>>, Head(variants).fields)
         \o UsesOfVariants(name, Tail(variants))

IsPrefix(p, q) == Len(p) <= Len(q) /\ SubSeq(q, 1, Len(p)) = p

\* C6: in every call of the generated `arbitrary` of an enum, all included
\* variants are constructed, in declaration order and field by field in
\* declaration order, before the pick; the handle uses and `gen` calls that
\* precede the pick are the same on every call whatever is picked.
C6_AllBuiltBeforePick ==
    (Derived /\ input.kind = "enum" /\ result.ok) =>
        /\ pc = "building" =>
             /\ ret.tag = "none"
             /\ IsPrefix(trace, UsesOfVariants(input.ident, Included(input)))
             /\ IsPrefix(PathsOf(options), IncludedPaths(input))
        /\ (AtPick \/ pc \in {"returned", "panicked"}) =>
             /\ trace = UsesOfVariants(input.ident, Included(input))
             /\ PathsOf(options) = IncludedPaths(input)

C6_Witness ==
    /\ pc = "returned" /\ input.kind = "enum"
    /\ Len(options) = 2
    /\ ret.val = options[1]
    /\ Len(trace) >= 1
    /\ trace[Len(trace)].path = options[2].path

\* C7: an enum whose variants are all annotated `skip` derives without
\* error into an empty candidate collection; every call of the generated
\* selector then fails with "no variants to choose from" and none returns.
C7_AllSkipped ==
    (Derived /\ input.kind = "enum" /\ ~Faulty(input.attrs, "item")
       /\ \A v \in 1..Len(input.variants) :
             Annotated(input.variants[v].attrs, "skip")) =>
        /\ result.ok
        /\ result.val.ctor.exprs = <<>>
        /\ pc # "returned" /\ ret.tag # "value"
        /\ pc = "building" => (todo = <<>> /\ choose(options) = {None})
        /\ pc = "panicked" => (ret.tag = "panic" /\ ret.msg = PanicMsg)

C7_Witness ==
    /\ pc = "panicked" /\ Len(input.variants) >= 2
    /\ \A v \in 1..Len(input.variants) : Annotated(input.variants[v].attrs, "skip")

\* C8 as claimed: a union is rejected with the unsupported-kind error
\* before anything else, whatever the declaration or its fields carry.
C8_Original ==
    (Derived /\ input.kind = "union") =>
        ~result.ok /\ result.err.msg = UnionMsg

\* C8 as amended: no implementation is ever emitted for a union; the error
\* is the unsupported-kind error, whatever the fields carry, when the item's
\* own configuration is without error (none, or `where`), and the item's
\* configuration error otherwise, which is resolved first.
C8_Union ==
    (Derived /\ input.kind = "union") =>
        /\ ~result.ok
        /\ ~Faulty(input.attrs, "item") =>
             (result.err.msg = UnionMsg /\ result.err.span = input.span)
        /\ Faulty(input.attrs, "item") =>
             (result.err.msg # UnionMsg /\ result.err.span.site = ItemSite)

C8_Witness ==
    /\ pc = "compile_error" /\ input.kind = "union"
    /\ Faulty(input.fields[1].attrs, "field")
    /\ Annotated(input.attrs, "where")
    /\ result.err.msg = UnionMsg

\* C9 as claimed: a configuration error on any field, a field of a skipped
\* variant included, fails the derive.
C9_Original ==
    Derived =>
        LET sites == AllSites(input)
        IN  \A i \in 1..Len(sites) :
                (sites[i].kind = "field" /\ Faulty(sites[i].attrs, "field"))
                    => ~result.ok

\* C9 as amended: a configuration error on a field of the record, or of a
\* variant that is not annotated `skip`, fails the derive; an implementation
\* is emitted only when every resolved site is without error.  The fields
\* of a variant annotated `skip` are never resolved.
C9_NoPartialGeneration ==
    Derived =>
        LET sites == AllSites(input)
        IN  /\ \A i \in 1..Len(sites) :
                  (sites[i].kind = "field" /\ Faulty(sites[i].attrs, "field")
                     /\ (sites[i].v > 0 =>
                            ~Annotated(input.variants[sites[i].v].attrs, "skip")))
                  => ~result.ok
            /\ result.ok => FirstFault(input) = None

C9_Witness ==
    /\ pc = "compile_error"
    /\ input.kind = "enum" /\ Len(input.variants) = 2
    /\ ~Faulty(input.variants[1].attrs, "variant")
    /\ ~Faulty(input.variants[2].attrs, "variant")
    /\ Len(input.variants[2].fields) = 1
    /\ ~AllWellFormed(input.variants[2].fields[1].attrs)

\* the span lies on that site and on no other
Identifies(span, s) ==
    \/ span.of \in {"site", "attr", "args"}
         /\ span.site = [kind |-> s.kind, v |-> s.v, f |-> s.f]
    \/ span.of = "variants" /\ s.kind = "variant"
         /\ span.lo = s.v /\ span.hi = s.v

\* C10: every build-time error is anchored to the one site whose
\* configuration is at fault (for a union without such a site: the item).
C10_ErrorNamesTheSite ==
    (Derived /\ ~result.ok) =>
        LET first == FirstFault(input)
        IN  IF first = None
            THEN Identifies(result.err.span, SiteOf("item", 0, 0, input.attrs))
            ELSE Identifies(result.err.span, Unwrap(first))

=============================================================================
